---------------------------- MODULE Spec2Model ----------------------------
(***************************************************************************)
(* A model of moneybot's core: MarketState valuation and trade sizing      *)
(* (moneybot/market/state.py), the legality filter of MarketAdapter        *)
(* (moneybot/market_adapters/__init__.py) and the Fund cycle               *)
(* (moneybot/Fund.py).                                                     *)
(*                                                                         *)
(* Numbers are exact rationals <<n, d>> in lowest terms with d > 0, so the *)
(* arithmetic of the code (+, -, *, /, comparisons) is computed, not       *)
(* abstracted; binary floating-point rounding, NaN and infinities are not  *)
(* modelled.  Python's None is the pair <<0, 0>>, which is no rational.    *)
(***************************************************************************)
EXTENDS Integers, Sequences, FiniteSets, TLC

VARIABLES
    chart_data,        \* MarketState.chart_data: market name -> statistics
    balances,          \* MarketState.balances: coin -> quantity held
    ev,                \* the last estimate_value call and what it returned
    trade,             \* the ProposedTrade handed to set_sell_amount
    sim,               \* the activation record of simulate_trades
    fl,                \* the activation record of the filter_legal generator
    fund,              \* the Fund cycle: adapter balances, step, backtest
    live               \* the run_live loop and its clock

vars == <<chart_data, balances, ev, trade, sim, fl, fund, live>>

-----------------------------------------------------------------------------
(* Bounds of the model *)

MaxAmount == 2        \* amounts range over halves up to MaxAmount / 2
MaxPrice == 2         \* whole prices 1 .. MaxPrice, besides 1/2
MaxTrades == 2        \* trades in one batch handed to simulate_trades
MaxProposed == 2      \* trades in one multi-trade input of filter_legal
MaxTick == 3          \* backtest end times range over 0 .. MaxTick
MaxInterval == 2      \* trade_interval ranges over 1 .. MaxInterval
MaxClock == 4         \* the wall clock of run_live ranges over 0 .. MaxClock

-----------------------------------------------------------------------------
(* Exact rational arithmetic standing for Python's float operators *)

Abs(i) == IF i < 0 THEN -i ELSE i

RECURSIVE GCD(_, _)
GCD(a, b) == IF b = 0 THEN a ELSE GCD(b, a % b)

Rat(n, d) ==
    LET s == IF d < 0 THEN -1 ELSE 1
        g == GCD(Abs(n), Abs(d))
    IN  <<(s * n) \div g, (s * d) \div g>>

None == <<0, 0>>
Zero == <<0, 1>>
One == <<1, 1>>

RAdd(x, y) == Rat(x[1] * y[2] + y[1] * x[2], x[2] * y[2])
RSub(x, y) == Rat(x[1] * y[2] - y[1] * x[2], x[2] * y[2])
RMul(x, y) == Rat(x[1] * y[1], x[2] * y[2])
RDiv(x, y) == Rat(x[1] * y[2], x[2] * y[1])      \* y # Zero
RLt(x, y) == x[1] * y[2] < y[1] * x[2]
RLe(x, y) == x[1] * y[2] <= y[1] * x[2]

-----------------------------------------------------------------------------
(* The inputs the model draws from *)

Coins == {"BTC", "ETH", "USD"}
Fiat == "BTC"

Prices == {Rat(1, 2)} \cup {Rat(k, 1) : k \in 1..MaxPrice}
Amounts == {Rat(k, 2) : k \in (-1)..MaxAmount}

\* f'{base}_{quote}'
MarketName(base, quote) == base \o "_" \o quote

AllMarkets == {MarketName("BTC", "ETH"), MarketName("ETH", "BTC"),
               MarketName("USD", "BTC")}

Charts(markets) ==
    UNION {[S -> [weighted_average : Prices]] : S \in SUBSET markets}

-----------------------------------------------------------------------------
(* MarketState: valuation *)

\* MarketState.price
price(cd, market) == cd[market].weighted_average

\* MarketState.estimate_value, with the reversed market looked up first
estimate_value_flipped(cd, coin, amount, reference_coin) ==
    IF coin = reference_coin THEN amount
    ELSE IF MarketName(coin, reference_coin) \in DOMAIN cd
         THEN RDiv(amount, cd[MarketName(coin, reference_coin)].weighted_average)
    ELSE IF MarketName(reference_coin, coin) \in DOMAIN cd
         THEN RMul(amount, cd[MarketName(reference_coin, coin)].weighted_average)
    ELSE None

\* MarketState.estimate_value
estimate_value(cd, coin, amount, reference_coin) ==
    IF coin = reference_coin THEN amount
    ELSE IF MarketName(reference_coin, coin) \in DOMAIN cd
         THEN RMul(amount, cd[MarketName(reference_coin, coin)].weighted_average)
    ELSE IF MarketName(coin, reference_coin) \in DOMAIN cd
         THEN RDiv(amount, cd[MarketName(coin, reference_coin)].weighted_average)
    ELSE None

\* MarketState.estimate_values
estimate_values(cd, bal, reference_coin) ==
    [coin \in DOMAIN bal |->
        LET value == estimate_value(cd, coin, bal[coin], reference_coin)
        IN  IF value = None THEN Zero ELSE value]

\* sum(d.values())
RECURSIVE SumValues(_, _)
SumValues(d, keys) ==
    IF keys = {} THEN Zero
    ELSE LET k == CHOOSE x \in keys : TRUE
         IN  RAdd(d[k], SumValues(d, keys \ {k}))

\* MarketState.estimate_total_value
estimate_total_value(cd, bal, reference_coin) ==
    LET values == estimate_values(cd, bal, reference_coin)
    IN  SumValues(values, DOMAIN values)

\* round(x, 2), ties to even
Round2(x) ==
    LET n == x[1] * 100
        q == n \div x[2]
        r == n % x[2]
        up == 2 * r > x[2] \/ (2 * r = x[2] /\ q % 2 = 1)
    IN  Rat(IF up THEN q + 1 ELSE q, 100)

\* MarketState.estimate_total_value_usd: the value, or None with the
\* exception that price('USD_BTC') raises when that market is not charted
estimate_total_value_usd(cd, bal) ==
    LET btc_val == estimate_total_value(cd, bal, "BTC") IN
    IF MarketName("USD", "BTC") \notin DOMAIN cd
    THEN [value |-> None, exc |-> "KeyError"]
    ELSE [value |-> Round2(RMul(btc_val, price(cd, MarketName("USD", "BTC")))),
          exc |-> ""]

-----------------------------------------------------------------------------
(* Idle values of the parts a specification does not exercise *)

NoCall == [op |-> "none"]

IdleEv == ev = NoCall
IdleTrade == trade = NoCall
IdleSim == sim = NoCall
IdleFl == fl = NoCall
IdleFund == fund = NoCall
IdleLive == live = NoCall

-----------------------------------------------------------------------------
(* SpecValue: estimate_value applied to every coin, amount and reference   *)
(* coin over every chart of AllMarkets                                     *)

InitValue ==
    /\ chart_data \in Charts(AllMarkets)
    /\ balances \in [{"BTC", "ETH"} -> {Zero, One}]
    /\ IdleEv /\ IdleTrade /\ IdleSim /\ IdleFl /\ IdleFund /\ IdleLive

EstimateValue ==
    \E coin \in Coins, amount \in Amounts, reference_coin \in Coins :
        /\ ev' = [op |-> "estimate_value", coin |-> coin, amount |-> amount,
                  reference_coin |-> reference_coin,
                  result |-> estimate_value(chart_data, coin, amount,
                                            reference_coin)]
        /\ UNCHANGED <<chart_data, balances, trade, sim, fl, fund, live>>

\* estimate_total_value_usd(balances) called with the snapshot's own balances
EstimateTotalValueUsd ==
    /\ ev' = [op |-> "estimate_total_value_usd",
              result |-> estimate_total_value_usd(chart_data, balances)]
    /\ UNCHANGED <<chart_data, balances, trade, sim, fl, fund, live>>

NextValue == EstimateValue \/ EstimateTotalValueUsd

SpecValue == InitValue /\ [][NextValue]_vars


\* C6 as stated: for every market "A_B" of chart_data and every amount x,
\* estimate_value(B, x, A) = x * price("A_B") and
\* estimate_value(A, x, B) = x / price("A_B"), whatever else chart_data holds.
C6_InverseConsistencyAsStated ==
    ev.op = "estimate_value" =>
        \A A \in Coins, B \in Coins :
            MarketName(A, B) \in DOMAIN chart_data =>
                /\ (ev.coin = B /\ ev.reference_coin = A) =>
                       ev.result = RMul(ev.amount,
                                        price(chart_data, MarketName(A, B)))
                /\ (ev.coin = A /\ ev.reference_coin = B) =>
                       ev.result = RDiv(ev.amount,
                                        price(chart_data, MarketName(A, B)))

\* C6 as amended: for every market "A_B" of chart_data (A # B) and every
\* amount x, estimate_value(B, x, A) = x * price("A_B"); and
\* estimate_value(A, x, B) = x / price("A_B") when the reversed market "B_A"
\* is absent from chart_data, while it is x * price("B_A") when "B_A" is
\* present: the direct market of the requested pair wins over the flipped one.
C6_InverseConsistency ==
    ev.op = "estimate_value" =>
        \A A \in Coins, B \in Coins :
            (A # B /\ MarketName(A, B) \in DOMAIN chart_data) =>
                /\ (ev.coin = B /\ ev.reference_coin = A) =>
                       ev.result = RMul(ev.amount,
                                        price(chart_data, MarketName(A, B)))
                /\ (ev.coin = A /\ ev.reference_coin = B) =>
                       ev.result =
                           IF MarketName(B, A) \in DOMAIN chart_data
                           THEN RMul(ev.amount,
                                     price(chart_data, MarketName(B, A)))
                           ELSE RDiv(ev.amount,
                                     price(chart_data, MarketName(A, B)))

\* A call estimate_value(A, x, B) with x # 0 on a chart that holds "A_B" and
\* a reversed market "B_A" whose price is not the reciprocal of "A_B"'s.
C6_Witness ==
    /\ ev.op = "estimate_value"
    /\ ev.amount # Zero
    /\ ev.coin = "BTC" /\ ev.reference_coin = "ETH"
    /\ MarketName("BTC", "ETH") \in DOMAIN chart_data
    /\ MarketName("ETH", "BTC") \in DOMAIN chart_data
    /\ RMul(price(chart_data, MarketName("BTC", "ETH")),
            price(chart_data, MarketName("ETH", "BTC"))) # One
    /\ ev.result = RMul(ev.amount, price(chart_data, MarketName("ETH", "BTC")))

-----------------------------------------------------------------------------
(* MarketState: trade sizing *)

\* A ProposedTrade as the sizing code reads and writes it.  raised names the
\* exception that left the call, "" when it returned normally.
NewTrade(sell_coin, buy_coin, market_name, base, fvt, fee) ==
    [op |-> "proposed",
     sell_coin |-> sell_coin, buy_coin |-> buy_coin,
     market_name |-> market_name, market_base_currency |-> base,
     fiat |-> Fiat, fiat_value_to_trade |-> fvt, fee |-> fee,
     market_price |-> None, price |-> None,
     sell_amount |-> None, buy_amount |-> None,
     raised |-> ""]

Raise(t, exc) == [t EXCEPT !.raised = exc]

\* MarketState.balance
balance(bal, coin) == bal[coin]

\* MarketState.estimate_price
estimate_price(cd, t) ==
    IF t.market_name \notin DOMAIN cd THEN Raise(t, "KeyError")
    ELSE LET base_price == price(cd, t.market_name)
             t1 == [t EXCEPT !.market_price = base_price]
         IN  IF t.buy_coin = t.market_base_currency
             THEN IF base_price = Zero THEN Raise(t1, "ZeroDivisionError")
                  ELSE [t1 EXCEPT !.price = RDiv(One, base_price)]
             ELSE [t1 EXCEPT !.price = base_price]

\* The fee step that ends set_sell_amount
apply_fee(t) ==
    IF t.price = Zero THEN Raise(t, "ZeroDivisionError")
    ELSE LET inv_amt == RSub(t.sell_amount, RMul(t.sell_amount, t.fee))
         IN  [t EXCEPT !.buy_amount = RDiv(inv_amt, t.price)]

\* MarketState.set_sell_amount without the clamp of a negative sell_amount
set_sell_amount_noclamp(bal, cd, t0) ==
    LET t == estimate_price(cd, t0) IN
    IF t.raised # "" THEN t
    ELSE IF t.sell_coin = t.fiat
         THEN apply_fee([t EXCEPT !.sell_amount = t.fiat_value_to_trade])
    ELSE IF t.buy_coin = t.fiat
         THEN IF t.sell_coin \notin DOMAIN bal THEN Raise(t, "KeyError")
              ELSE IF t.price = Zero THEN Raise(t, "ZeroDivisionError")
              ELSE LET current_value == RMul(balance(bal, t.sell_coin), t.price)
                       value_to_sell == RSub(current_value,
                                             t.fiat_value_to_trade)
                   IN  apply_fee([t EXCEPT !.sell_amount =
                                               RDiv(value_to_sell, t.price)])
    ELSE Raise(t, "RuntimeError")

\* MarketState.set_sell_amount
set_sell_amount(bal, cd, t0) ==
    LET t == estimate_price(cd, t0) IN
    IF t.raised # "" THEN t
    ELSE IF t.sell_coin = t.fiat
         THEN apply_fee([t EXCEPT !.sell_amount = t.fiat_value_to_trade])
    ELSE IF t.buy_coin = t.fiat
         THEN IF t.sell_coin \notin DOMAIN bal THEN Raise(t, "KeyError")
              ELSE IF t.price = Zero THEN Raise(t, "ZeroDivisionError")
              ELSE LET current_value == RMul(balance(bal, t.sell_coin), t.price)
                       value_to_sell == RSub(current_value,
                                             t.fiat_value_to_trade)
                       sell_amount == RDiv(value_to_sell, t.price)
                   IN  apply_fee([t EXCEPT !.sell_amount =
                                      IF RLt(sell_amount, Zero) THEN Zero
                                      ELSE sell_amount])
    ELSE Raise(t, "RuntimeError")

-----------------------------------------------------------------------------
(* SpecSell: set_sell_amount applied to sell-fiat, buy-fiat and fiat-less  *)
(* trades on the market BTC_ETH, over every balance and price              *)

SellMarket == MarketName("BTC", "ETH")
SellPrices == Prices \cup {Rat(-1, 1)}
Fees == {Zero, Rat(1, 4)}
Holdings == {Rat(k, 1) : k \in 0..MaxAmount}

\* <<sell_coin, buy_coin>>: sell fiat, buy fiat, neither leg fiat
Shapes == {<<"BTC", "ETH">>, <<"ETH", "BTC">>, <<"ETH", "USD">>}

SellTrades(fvts) ==
    {NewTrade(s[1], s[2], SellMarket, "BTC", fvt, fee) :
        s \in Shapes, fvt \in fvts, fee \in Fees}

InitSell ==
    /\ chart_data \in [{SellMarket} -> [weighted_average : SellPrices]]
    /\ balances \in [{"BTC", "ETH"} -> Holdings]
    /\ IdleEv /\ IdleTrade /\ IdleSim /\ IdleFl /\ IdleFund /\ IdleLive

SetSellAmount ==
    \E t \in SellTrades(Amounts) :
        /\ trade' = [set_sell_amount(balances, chart_data, t)
                        EXCEPT !.op = "set_sell_amount"]
        /\ UNCHANGED <<chart_data, balances, ev, sim, fl, fund, live>>

NextSell == SetSellAmount

SpecSell == InitSell /\ [][NextSell]_vars

Sized == trade.op = "set_sell_amount" /\ trade.raised = ""

\* C7 as stated: on every sell-fiat or buy-fiat trade on which set_sell_amount
\* returns normally, whatever fiat_value_to_trade, balance and non-zero price,
\* sell_amount >= 0 afterwards.
C7_SellAmountNonNegativeAsStated ==
    Sized => RLe(Zero, trade.sell_amount)

\* C7 as amended: on a buy-fiat trade set_sell_amount leaves sell_amount >= 0
\* whatever fiat_value_to_trade, balance and non-zero price, and leaves it 0
\* when the price is positive and current_value < fiat_value_to_trade; on a
\* sell-fiat trade it leaves sell_amount = fiat_value_to_trade unclamped, so
\* sell_amount >= 0 there exactly when fiat_value_to_trade >= 0.
C7_SellAmountNonNegative ==
    Sized =>
        /\ trade.buy_coin = trade.fiat =>
               /\ RLe(Zero, trade.sell_amount)
               /\ (/\ RLt(Zero, trade.price)
                   /\ RLt(RMul(balance(balances, trade.sell_coin), trade.price),
                          trade.fiat_value_to_trade)) =>
                      trade.sell_amount = Zero
        /\ trade.sell_coin = trade.fiat =>
               /\ trade.sell_amount = trade.fiat_value_to_trade
               /\ RLe(Zero, trade.sell_amount)
                      <=> RLe(Zero, trade.fiat_value_to_trade)

\* A buy-fiat trade whose current_value is below fiat_value_to_trade has been
\* sized, and its sell_amount was clamped to zero.
C7_Witness ==
    /\ Sized
    /\ trade.buy_coin = trade.fiat
    /\ RLt(Zero, trade.price)
    /\ RLt(RMul(balance(balances, trade.sell_coin), trade.price),
           trade.fiat_value_to_trade)
    /\ trade.sell_amount = Zero


-----------------------------------------------------------------------------
(* MarketState: simulate_trades *)

\* dict item assignment d[k] = v
Put(d, k, v) == [x \in DOMAIN d \cup {k} |-> IF x = k THEN v ELSE d[x]]

\* The inner function simulate of simulate_trades: the trade is sized by
\* self.set_sell_amount, which reads self.balances (bal), then debited from
\* and credited to new_balances.
simulate(bal, cd, proposed, new_balances) ==
    LET t == set_sell_amount(bal, cd, proposed) IN
    IF t.raised # "" THEN [trade |-> t, new_balances |-> new_balances]
    ELSE IF t.sell_coin \notin DOMAIN new_balances
         THEN [trade |-> Raise(t, "KeyError"), new_balances |-> new_balances]
    ELSE LET debited == Put(new_balances, t.sell_coin,
                            RSub(new_balances[t.sell_coin], t.sell_amount))
             opened == IF t.buy_coin \notin DOMAIN debited
                       THEN Put(debited, t.buy_coin, Zero)
                       ELSE debited
             est_trade_amt == RDiv(t.sell_amount, t.price)
         IN  [trade |-> t,
              new_balances |-> Put(opened, t.buy_coin,
                                   RAdd(opened[t.buy_coin], est_trade_amt))]

-----------------------------------------------------------------------------
(* SpecSim: simulate_trades run over batches of up to MaxTrades trades on  *)
(* the market BTC_ETH                                                      *)

NonNegAmounts == {a \in Amounts : RLe(Zero, a)}

RECURSIVE SeqsUpTo(_, _)
SeqsUpTo(S, n) ==
    IF n = 0 THEN {<<>>}
    ELSE LET shorter == SeqsUpTo(S, n - 1)
         IN  shorter \cup {Append(q, x) : q \in shorter, x \in S}

InitSim ==
    /\ chart_data \in [{SellMarket} -> [weighted_average : Prices]]
    /\ balances \in [{"BTC", "ETH"} -> Holdings] \cup [{"ETH"} -> Holdings]
    /\ IdleEv /\ IdleTrade /\ IdleSim /\ IdleFl /\ IdleFund /\ IdleLive

\* simulate_trades is called: new_balances and new_proposed are copies
SimulateTrades ==
    /\ sim.op = "none"
    /\ \E proposed_trades \in SeqsUpTo(SellTrades(NonNegAmounts), MaxTrades) :
           sim' = [op |-> "simulate_trades", pc |-> "loop", i |-> 1,
                   new_proposed |-> proposed_trades,
                   new_balances |-> balances,
                   at_call |-> balances]
    /\ UNCHANGED <<chart_data, balances, ev, trade, fl, fund, live>>

\* One iteration of the for loop: new_balances = simulate(proposed, new_balances)
Simulate ==
    /\ sim.op = "simulate_trades" /\ sim.pc = "loop"
    /\ sim.i <= Len(sim.new_proposed)
    /\ LET r == simulate(balances, chart_data, sim.new_proposed[sim.i],
                         sim.new_balances)
       IN  sim' = [sim EXCEPT
                      !.new_proposed[sim.i] = r.trade,
                      !.new_balances = r.new_balances,
                      !.i = sim.i + 1,
                      !.pc = IF r.trade.raised # "" THEN "raised" ELSE "loop"]
    /\ UNCHANGED <<chart_data, balances, ev, trade, fl, fund, live>>

\* return new_balances
SimReturn ==
    /\ sim.op = "simulate_trades" /\ sim.pc = "loop"
    /\ sim.i > Len(sim.new_proposed)
    /\ sim' = [sim EXCEPT !.pc = "returned"]
    /\ UNCHANGED <<chart_data, balances, ev, trade, fl, fund, live>>

NextSim == SimulateTrades \/ Simulate \/ SimReturn

SpecSim == InitSim /\ [][NextSim]_vars

\* C5: trades are applied in input order and the sizing of the k-th trade
\* uses the balances as already debited and credited by trades 1..k-1 of the
\* batch: the trade the k-th iteration leaves behind is set_sell_amount
\* computed on the projected balances the iteration started from.
C5_SizingSeesPriorTrades ==
    [][(sim.op = "simulate_trades" /\ sim.pc = "loop"
            /\ sim'.op = "simulate_trades" /\ sim'.i = sim.i + 1
            /\ sim.new_proposed[sim.i].sell_coin \in DOMAIN sim.new_balances)
        => sim'.new_proposed[sim.i] =
               set_sell_amount(sim.new_balances, chart_data,
                               sim.new_proposed[sim.i])]_vars

\* C10: from a snapshot with balances >= 0 and a batch of sell-fiat or
\* buy-fiat trades with positive price, fee in [0, 1) and
\* fiat_value_to_trade >= 0, every quantity of the returned map is >= 0, the
\* snapshot's own map is unchanged, and an empty batch returns an equal map.
C10_ProjectedBalancesNonNegative ==
    (sim.op = "simulate_trades" /\ sim.pc = "returned") =>
        /\ \A c \in DOMAIN sim.new_balances : RLe(Zero, sim.new_balances[c])
        /\ balances = sim.at_call
        /\ sim.new_proposed = <<>> => sim.new_balances = balances


-----------------------------------------------------------------------------
(* MarketAdapter: the legality filter *)

\* A ProposedTrade as is_legal reads it
LegalTrade(p, bid, ask, from_coin, to_coin, market_name) ==
    [price |-> p, bid_amount |-> bid, ask_amount |-> ask,
     from_coin |-> from_coin, to_coin |-> to_coin, fiat |-> Fiat,
     market_name |-> market_name]

\* Python truthiness of a price: None and 0 are falsy
Truthy(p) == p # None /\ p # Zero

\* The minimum fiat trade amount, 0.0001
MinFiatTrade == Rat(1, 10000)

\* MarketAdapter.is_legal without the minimum fiat trade amount check
is_legal_nodust(proposed, bal, cd) ==
    IF ~Truthy(proposed.price) THEN "False"
    ELSE IF proposed.from_coin \notin DOMAIN bal THEN "KeyError"
    ELSE IF RLt(bal[proposed.from_coin], proposed.bid_amount) THEN "NameError"
    ELSE IF RLt(proposed.bid_amount, Zero) \/ RLt(proposed.ask_amount, Zero)
         THEN "False"
    ELSE IF proposed.market_name \notin DOMAIN cd THEN "False"
    ELSE "True"

\* MarketAdapter.is_legal: "True", "False", or the exception it raises.  The
\* warning of the oversold branch reads the unbound name balances, so that
\* branch raises NameError before it can return False.
is_legal(proposed, bal, cd) ==
    IF ~Truthy(proposed.price) THEN "False"
    ELSE IF proposed.from_coin \notin DOMAIN bal THEN "KeyError"
    ELSE IF RLt(bal[proposed.from_coin], proposed.bid_amount) THEN "NameError"
    ELSE IF RLt(proposed.bid_amount, Zero) \/ RLt(proposed.ask_amount, Zero)
         THEN "False"
    ELSE IF \/ (proposed.from_coin = proposed.fiat
                   /\ RLt(proposed.bid_amount, MinFiatTrade))
            \/ (proposed.to_coin = proposed.fiat
                   /\ RLt(proposed.ask_amount, MinFiatTrade))
         THEN "False"
    ELSE IF proposed.market_name \notin DOMAIN cd THEN "False"
    ELSE "True"

-----------------------------------------------------------------------------
(* SpecLegal: the filter_legal generator consumed to its end over every    *)
(* single trade of LegalTrades and every input of up to MaxProposed trades *)
(* of CoreTrades                                                           *)

Dust == Rat(1, 20000)
LegalPrices == {None, Zero, One}
Bids == {Rat(-1, 1), Dust, One, Rat(2, 1)}
Asks == {Rat(-1, 1), Dust, One}
Directions == {<<"BTC", "ETH">>, <<"ETH", "BTC">>, <<"USD", "BTC">>}
LegalMarkets == {MarketName("BTC", "ETH"), MarketName("BTC", "XRP")}

LegalTrades ==
    {LegalTrade(p, bid, ask, d[1], d[2], m) :
        p \in LegalPrices, bid \in Bids, ask \in Asks,
        d \in Directions, m \in LegalMarkets}

\* a legal trade each way, and one trade for each way of being rejected
CoreTrades ==
    {LegalTrade(One, One, One, "BTC", "ETH", MarketName("BTC", "ETH")),
     LegalTrade(One, One, One, "ETH", "BTC", MarketName("BTC", "ETH")),
     LegalTrade(None, One, One, "BTC", "ETH", MarketName("BTC", "ETH")),
     LegalTrade(One, Rat(2, 1), One, "BTC", "ETH", MarketName("BTC", "ETH")),
     LegalTrade(One, One, Rat(-1, 1), "BTC", "ETH", MarketName("BTC", "ETH")),
     LegalTrade(One, Dust, One, "BTC", "ETH", MarketName("BTC", "ETH")),
     LegalTrade(One, One, Dust, "ETH", "BTC", MarketName("BTC", "ETH")),
     LegalTrade(One, One, One, "BTC", "ETH", MarketName("BTC", "XRP"))}

InitLegal ==
    /\ chart_data \in [{MarketName("BTC", "ETH")} -> [weighted_average : {One}]]
    /\ balances \in [{"BTC", "ETH"} -> {Zero, One}]
    /\ IdleEv /\ IdleTrade /\ IdleSim /\ IdleFl /\ IdleFund /\ IdleLive

\* filter_legal(proposed_trades, market_state) is called and its generator
\* created; yielded holds the positions of the trades yielded so far
FilterLegal ==
    /\ fl.op = "none"
    /\ \E proposed_trades \in {<<t>> : t \in LegalTrades}
                                  \cup SeqsUpTo(CoreTrades, MaxProposed) :
           fl' = [op |-> "filter_legal", pc |-> "running", i |-> 1,
                  proposed_trades |-> proposed_trades,
                  yielded |-> <<>>, exc |-> ""]
    /\ UNCHANGED <<chart_data, balances, ev, trade, sim, fund, live>>

\* The consumer asks for more: one pass of the for loop over the next trade
FilterNext ==
    /\ fl.op = "filter_legal" /\ fl.pc = "running"
    /\ fl.i <= Len(fl.proposed_trades)
    /\ LET r == is_legal(fl.proposed_trades[fl.i], balances, chart_data)
       IN  fl' = [fl EXCEPT
                     !.i = fl.i + 1,
                     !.yielded = IF r = "True" THEN Append(fl.yielded, fl.i)
                                 ELSE fl.yielded,
                     !.pc = IF r \in {"True", "False"} THEN "running"
                            ELSE "raised",
                     !.exc = IF r \in {"True", "False"} THEN "" ELSE r]
    /\ UNCHANGED <<chart_data, balances, ev, trade, sim, fund, live>>

\* The input is exhausted: the generator ends normally
FilterStop ==
    /\ fl.op = "filter_legal" /\ fl.pc = "running"
    /\ fl.i > Len(fl.proposed_trades)
    /\ fl' = [fl EXCEPT !.pc = "done"]
    /\ UNCHANGED <<chart_data, balances, ev, trade, sim, fund, live>>

NextLegal == FilterLegal \/ FilterNext \/ FilterStop

SpecLegal == InitLegal /\ [][NextLegal]_vars

\* The five legality conditions, as the claims state them
Legal5(t, bal, cd) ==
    /\ Truthy(t.price)
    /\ t.from_coin \in DOMAIN bal /\ RLe(t.bid_amount, bal[t.from_coin])
    /\ RLe(Zero, t.bid_amount) /\ RLe(Zero, t.ask_amount)
    /\ t.from_coin = t.fiat => RLe(MinFiatTrade, t.bid_amount)
    /\ t.to_coin = t.fiat => RLe(MinFiatTrade, t.ask_amount)
    /\ t.market_name \in DOMAIN cd

\* C3: filter_legal never raises on a bad trade: consuming its output never
\* ends in an exception, and once a trade whose bid_amount exceeds the
\* balance of its from_coin has been passed, the generator is still running
\* (or done) and has not yielded that trade.
C3_FilterNeverRaises ==
    fl.op = "filter_legal" =>
        /\ fl.pc # "raised"
        /\ \A k \in 1..(fl.i - 1) :
               LET t == fl.proposed_trades[k]
               IN  (/\ Truthy(t.price)
                    /\ t.from_coin \in DOMAIN balances
                    /\ RLt(balances[t.from_coin], t.bid_amount))
                   => \A j \in 1..Len(fl.yielded) : fl.yielded[j] # k

\* C4: what filter_legal has yielded is an order-preserving subsequence of
\* the input passed so far, and every trade it yielded satisfies all five
\* legality conditions against the snapshot (so a trade violating any one of
\* them, such as a fiat leg of 0.00005, is never yielded).
C4_YieldedAreLegal ==
    fl.op = "filter_legal" =>
        /\ \A j \in 1..Len(fl.yielded) :
               /\ fl.yielded[j] \in 1..(fl.i - 1)
               /\ j > 1 => fl.yielded[j - 1] < fl.yielded[j]
               /\ Legal5(fl.proposed_trades[fl.yielded[j]], balances,
                         chart_data)

\* filter_legal ran to its end over an input in which a trade with a fiat
\* leg of 0.00005 comes before a legal trade: the first was skipped, the
\* second yielded.
C4_Witness ==
    /\ fl.op = "filter_legal" /\ fl.pc = "done"
    /\ Len(fl.proposed_trades) = 2
    /\ fl.proposed_trades[1].from_coin = Fiat
    /\ fl.proposed_trades[1].bid_amount = Dust
    /\ fl.yielded = <<2>>


-----------------------------------------------------------------------------
(* Fund: one cycle *)

\* filter_legal consumed to its end from position i on: the positions
\* yielded, and the exception that ended it ("" when it ended normally)
RECURSIVE filter_legal(_, _, _, _)
filter_legal(proposed_trades, bal, cd, i) ==
    IF i > Len(proposed_trades) THEN [yielded |-> <<>>, exc |-> ""]
    ELSE LET r == is_legal(proposed_trades[i], bal, cd) IN
         IF r \notin {"True", "False"} THEN [yielded |-> <<>>, exc |-> r]
         ELSE LET rest == filter_legal(proposed_trades, bal, cd, i + 1)
              IN  IF r = "True"
                  THEN [rest EXCEPT !.yielded = <<i>> \o rest.yielded]
                  ELSE rest

\* Fund.step handing the proposal to execute as it came
assumed_legal_trades_unfiltered(proposed_trades, bal, cd) ==
    [yielded |-> [k \in 1..Len(proposed_trades) |-> k], exc |-> ""]

\* Fund.step: assumed_legal_trades = filter_legal(proposed_trades, market_state)
assumed_legal_trades(proposed_trades, bal, cd) ==
    filter_legal(proposed_trades, bal, cd, 1)

\* Fund.step: if proposed_trades: (None and the empty list are falsy)
should_execute(proposed) == proposed.kind = "list" /\ proposed.items # <<>>

\* A call of estimate_total_value_usd(self, balances) with the positional
\* arguments args: Python raises TypeError unless exactly one is given
call_estimate_total_value_usd(cd, args) ==
    IF Len(args) # 1 THEN [value |-> None, exc |-> "TypeError"]
    ELSE estimate_total_value_usd(cd, args[1])

\* Fund.step: the arguments of its call market_state.estimate_total_value_usd()
step_valuation_args(adapter_balances) == <<>>

\* ExecutionAdapter.execute: the fill of one trade on the adapter's balances
fill(bal, t) ==
    LET debited == Put(bal, t.from_coin,
                       RSub(IF t.from_coin \in DOMAIN bal
                            THEN bal[t.from_coin] ELSE Zero, t.bid_amount))
    IN  Put(debited, t.to_coin,
            RAdd(IF t.to_coin \in DOMAIN debited
                 THEN debited[t.to_coin] ELSE Zero, t.ask_amount))

RECURSIVE fills(_, _, _)
fills(bal, trades, k) ==
    IF k > Len(trades) THEN bal ELSE fills(fill(bal, trades[k]), trades, k + 1)

IdleStep ==
    [pc |-> "idle", time |-> 0, proposed |-> [kind |-> "None", items |-> <<>>],
     calls |-> <<>>, executed |-> <<>>, result |-> None, exc |-> ""]

FundCharts ==
    [{MarketName("USD", "BTC"), MarketName("BTC", "ETH")}
        -> [weighted_average : Prices]]

FundTrades ==
    {LegalTrade(One, One, One, "BTC", "ETH", MarketName("BTC", "ETH")),
     LegalTrade(One, One, One, "ETH", "BTC", MarketName("BTC", "ETH")),
     LegalTrade(One, Rat(2, 1), One, "BTC", "ETH", MarketName("BTC", "ETH")),
     LegalTrade(One, Dust, One, "BTC", "ETH", MarketName("BTC", "ETH"))}

Proposals ==
    {[kind |-> "None", items |-> <<>>]}
        \cup {[kind |-> "list", items |-> q] :
                 q \in SeqsUpTo(FundTrades, MaxProposed)}

\* step(time) is entered
CallStep(time) ==
    [IdleStep EXCEPT !.pc = "called", !.time = time]

\* market_state = self.MarketAdapter.get_market_state(time)
StepGetMarketState ==
    /\ fund.op = "fund" /\ fund.step.pc = "called"
    /\ chart_data' \in FundCharts
    /\ balances' = fund.adapter_balances
    /\ fund' = [fund EXCEPT
                   !.step.pc = "got_state",
                   !.step.calls = Append(@, "get_market_state")]
    /\ UNCHANGED <<ev, trade, sim, fl, live>>

\* proposed_trades = self.Strategy.propose_trades(market_state, history)
StepProposeTrades ==
    /\ fund.op = "fund" /\ fund.step.pc = "got_state"
    /\ \E proposed \in Proposals :
           fund' = [fund EXCEPT
                       !.step.pc = "proposed",
                       !.step.proposed = proposed,
                       !.step.calls = Append(@, "propose_trades")]
    /\ UNCHANGED <<chart_data, balances, ev, trade, sim, fl, live>>

\* if proposed_trades: filter_legal(...) makes the generator and
\* execute(assumed_legal_trades, market_state) consumes it, filling every
\* trade it yields; an exception of the generator leaves through execute
StepExecute ==
    /\ fund.op = "fund" /\ fund.step.pc = "proposed"
    /\ should_execute(fund.step.proposed)
    /\ LET items == fund.step.proposed.items
           gen == assumed_legal_trades(items, balances, chart_data)
           trades == [k \in 1..Len(gen.yielded) |-> items[gen.yielded[k]]]
       IN  fund' = [fund EXCEPT
                       !.adapter_balances = fills(@, trades, 1),
                       !.step.executed = trades,
                       !.step.calls = @ \o <<"filter_legal", "execute">>,
                       !.step.exc = gen.exc,
                       !.step.pc = IF gen.exc = "" THEN "executed"
                                   ELSE "raised"]
    /\ UNCHANGED <<chart_data, balances, ev, trade, sim, fl, live>>

\* usd_value = market_state.estimate_total_value_usd(); return usd_value
StepValuation ==
    /\ fund.op = "fund"
    /\ \/ fund.step.pc = "executed"
       \/ fund.step.pc = "proposed" /\ ~should_execute(fund.step.proposed)
    /\ LET r == call_estimate_total_value_usd(
                    chart_data, step_valuation_args(fund.adapter_balances))
       IN  fund' = [fund EXCEPT
                       !.step.calls = Append(@, "estimate_total_value_usd"),
                       !.step.result = r.value,
                       !.step.exc = r.exc,
                       !.step.pc = IF r.exc = "" THEN "returned" ELSE "raised"]
    /\ UNCHANGED <<chart_data, balances, ev, trade, sim, fl, live>>

Step ==
    StepGetMarketState \/ StepProposeTrades \/ StepExecute \/ StepValuation

StepEnded == fund.step.pc \in {"returned", "raised"}

-----------------------------------------------------------------------------
(* SpecFund: begin_backtest driving step *)

\* pd.date_range(start, end, freq=trade_interval seconds)
date_range(start, end, interval) ==
    IF end < start THEN <<>>
    ELSE [k \in 1..((end - start) \div interval + 1) |->
             start + (k - 1) * interval]

InitFund ==
    /\ chart_data = [m \in {} |-> None]
    /\ balances = [c \in {} |-> Zero]
    /\ fund \in [op : {"fund"},
                 adapter_balances : [{"BTC", "ETH"} -> {Zero, One}],
                 trade_interval : 1..MaxInterval,
                 step : {IdleStep},
                 bt : {[pc |-> "none"]}]
    /\ IdleEv /\ IdleTrade /\ IdleSim /\ IdleFl /\ IdleLive

\* begin_backtest(start_time, end_time) makes the generator; nothing runs yet
BeginBacktest ==
    /\ fund.op = "fund" /\ fund.bt.pc = "none"
    /\ \E start_time \in 0..1, end_time \in 0..MaxTick :
           fund' = [fund EXCEPT !.bt =
                       [pc |-> "suspended", start_time |-> start_time,
                        end_time |-> end_time,
                        dates |-> date_range(start_time, end_time,
                                             fund.trade_interval),
                        k |-> 1, stepped |-> <<>>, yielded |-> <<>>]]
    /\ UNCHANGED <<chart_data, balances, ev, trade, sim, fl, live>>

\* The consumer asks for the next value: the loop takes the next date and
\* calls step(date), or the dates are exhausted and the generator ends
BacktestNext ==
    /\ fund.op = "fund" /\ fund.bt.pc = "suspended"
    /\ fund' = IF fund.bt.k > Len(fund.bt.dates)
               THEN [fund EXCEPT !.bt.pc = "done"]
               ELSE [fund EXCEPT
                        !.bt.pc = "in_step",
                        !.bt.stepped = Append(@, fund.bt.dates[fund.bt.k]),
                        !.step = CallStep(fund.bt.dates[fund.bt.k])]
    /\ UNCHANGED <<chart_data, balances, ev, trade, sim, fl, live>>

\* step has ended: yield val, or its exception leaves the generator
BacktestYield ==
    /\ fund.op = "fund" /\ fund.bt.pc = "in_step" /\ StepEnded
    /\ fund' = IF fund.step.pc = "returned"
               THEN [fund EXCEPT
                        !.bt.pc = "suspended",
                        !.bt.k = @ + 1,
                        !.bt.yielded = Append(@, fund.step.result)]
               ELSE [fund EXCEPT !.bt.pc = "raised"]
    /\ UNCHANGED <<chart_data, balances, ev, trade, sim, fl, live>>

NextFund == BeginBacktest \/ BacktestNext \/ Step \/ BacktestYield

SpecFund == InitFund /\ [][NextFund]_vars


\* C1: whenever get_market_state, propose_trades, filter_legal and execute
\* completed without error, step completes without error and returns
\* estimate_total_value_usd applied to the adapter's balances as they are
\* after execute ran in that step (unchanged when nothing was proposed).
C1_StepReturnsValue ==
    (/\ fund.op = "fund" /\ StepEnded
     /\ fund.step.calls[Len(fund.step.calls)] = "estimate_total_value_usd")
    => /\ fund.step.pc = "returned"
       /\ fund.step.result =
              estimate_total_value_usd(chart_data, fund.adapter_balances).value

\* C2: begin_backtest calls step exactly once per timestamp
\* start + k * trade_interval not after end, in increasing order, and yields
\* one value per such timestamp (2 values over a 2-tick window): when the
\* generator has ended, it ended normally, having stepped through every date
\* and yielded as many values as there are dates.
C2_BacktestYieldsPerTick ==
    (fund.op = "fund" /\ fund.bt.pc \in {"done", "raised"}) =>
        /\ fund.bt.pc = "done"
        /\ fund.bt.stepped = fund.bt.dates
        /\ Len(fund.bt.yielded) = Len(fund.bt.dates)
        /\ \A k \in 1..Len(fund.bt.dates) :
               /\ fund.bt.dates[k] =
                      fund.bt.start_time + (k - 1) * fund.trade_interval
               /\ fund.bt.dates[k] <= fund.bt.end_time

IsPrefix(p, q) == Len(p) <= Len(q) /\ \A k \in 1..Len(p) : p[k] = q[k]

\* C9: within one step the collaborator calls come in the order
\* get_market_state, propose_trades, then, only if the proposal is non-empty,
\* filter_legal and execute, once; execute receives only trades of the
\* proposal that are legal against that step's market_state; and when the
\* proposal is empty or None neither filter_legal nor execute is called and
\* the adapter's balances are as they were when the step took its snapshot.
C9_StepCallOrder ==
    fund.op = "fund" =>
        LET st == fund.step
            nonempty == st.proposed.kind = "list" /\ Len(st.proposed.items) > 0
        IN  /\ \/ IsPrefix(st.calls, <<"get_market_state", "propose_trades",
                                       "filter_legal", "execute",
                                       "estimate_total_value_usd">>)
               \/ IsPrefix(st.calls, <<"get_market_state", "propose_trades",
                                       "estimate_total_value_usd">>)
            /\ (\E k \in 1..Len(st.calls) :
                    st.calls[k] \in {"filter_legal", "execute"}) => nonempty
            /\ \A k \in 1..Len(st.executed) :
                   /\ \E j \in 1..Len(st.proposed.items) :
                          st.proposed.items[j] = st.executed[k]
                   /\ Legal5(st.executed[k], balances, chart_data)
            /\ (st.pc \in {"proposed", "returned", "raised"} /\ ~nonempty) =>
                   /\ st.executed = <<>>
                   /\ fund.adapter_balances = balances

\* A step whose strategy proposed two trades of which filter_legal dropped
\* one: execute received the other alone and the balances moved.
C9_Witness ==
    /\ fund.op = "fund" /\ StepEnded
    /\ Len(fund.step.proposed.items) = 2
    /\ Len(fund.step.executed) = 1
    /\ fund.step.calls = <<"get_market_state", "propose_trades",
                           "filter_legal", "execute",
                           "estimate_total_value_usd">>
    /\ fund.adapter_balances # balances

-----------------------------------------------------------------------------
(* SpecLive: run_live driving step while the wall clock advances *)

InitLive ==
    /\ chart_data = [m \in {} |-> None]
    /\ balances = [c \in {} |-> Zero]
    /\ fund \in [op : {"fund"},
                 adapter_balances : [{"BTC", "ETH"} -> {Zero, One}],
                 trade_interval : 1..MaxInterval,
                 step : {IdleStep},
                 bt : {[pc |-> "none"]}]
    /\ live \in [op : {"run_live"}, pc : {"entry"}, now : 0..1,
                 starttime : {0}, PERIOD : {0}, cur_time : {0},
                 cycle : {0}, sleep : {0}, woke : {0}]
    /\ IdleEv /\ IdleTrade /\ IdleSim /\ IdleFl

\* The wall clock advances while run_live is running
LiveTick ==
    /\ live.op = "run_live" /\ live.pc \in {"entry", "loop_top", "in_step"}
    /\ live.now < MaxClock
    /\ live' = [live EXCEPT !.now = @ + 1]
    /\ UNCHANGED <<chart_data, balances, ev, trade, sim, fl, fund>>

\* starttime = time(); PERIOD = self.Strategy.trade_interval
RunLive ==
    /\ live.op = "run_live" /\ live.pc = "entry"
    /\ live' = [live EXCEPT !.pc = "loop_top", !.starttime = live.now,
                            !.PERIOD = fund.trade_interval]
    /\ UNCHANGED <<chart_data, balances, ev, trade, sim, fl, fund>>

\* The top of the loop: cur_time = datetime.now(); scrape_latest();
\* step(cur_time) is called
LiveCycle ==
    /\ live.op = "run_live" /\ live.pc = "loop_top"
    /\ live.now <= MaxClock
    /\ live' = [live EXCEPT !.pc = "in_step", !.cur_time = live.now,
                            !.cycle = @ + 1]
    /\ fund' = [fund EXCEPT !.step = CallStep(live.now)]
    /\ UNCHANGED <<chart_data, balances, ev, trade, sim, fl>>

\* step has ended: sleep(PERIOD - ((time() - starttime) % PERIOD)), which
\* waits exactly that long, or the exception of step leaves run_live
LiveSleep ==
    /\ live.op = "run_live" /\ live.pc = "in_step" /\ StepEnded
    /\ live' = IF fund.step.pc = "returned"
               THEN LET s == live.PERIOD
                                - ((live.now - live.starttime) % live.PERIOD)
                    IN  [live EXCEPT !.pc = "loop_top", !.sleep = s,
                                     !.now = @ + s, !.woke = live.now + s]
               ELSE [live EXCEPT !.pc = "raised"]
    /\ UNCHANGED <<chart_data, balances, ev, trade, sim, fl, fund>>

NextLive == LiveTick \/ RunLive \/ LiveCycle \/ Step \/ LiveSleep

SpecLive == InitLive /\ [][NextLive]_vars

\* C8: run_live is phase-locked to the period: once a cycle's step is over,
\* however long it took, run_live has asked for a sleep s with
\* 0 < s <= PERIOD and the next cycle starts at a time t with t - starttime
\* a positive whole multiple of PERIOD.
C8_PhaseLocked ==
    (/\ live.op = "run_live" /\ live.cycle >= 1
     /\ live.pc \notin {"in_step"})
    => /\ 0 < live.sleep /\ live.sleep <= live.PERIOD
       /\ live.woke > live.starttime
       /\ (live.woke - live.starttime) % live.PERIOD = 0

=============================================================================
